---- MODULE Spec2Model ----
\* The Stripe webhook -> Google Sheets founder ledger of aicx-webhook.
\* The repository holds two entry points that serve POST /stripe-webhook:
\*   src/server.js          tier from metadata/amount, 11-column row (A:K)
\*   src/unnamed/part_000   tier from the first line item's price, 8-column row (A:H)
\* A deployment runs one of them; `impl` says which.
EXTENDS Integers, Sequences, FiniteSets, TLC

\* ---------------------------------------------------------------- bounds

\* Deliveries (inbound POSTs) in one behaviour.
MaxReq == 2

\* The outbound calls that fail before the outbound calls succeed.
MaxFail == 2

\* Half-width, in cents, of the amount windows of the tier-resolver specification.
Spread == 60

\* ---------------------------------------------------------------- state

VARIABLES
    impl,                   \* which entry point is deployed
    STRIPE_WEBHOOK_SECRET,  \* process.env.STRIPE_WEBHOOK_SECRET ("" = not provisioned)
    requests,               \* the inbound requests, in arrival order
    ledger,                 \* the rows of the Google Sheet tab, in sheet order
    appendedBy,             \* history: appendedBy[k] = the request whose call added ledger[k]
    probe                   \* the tier-resolver specification's input and result

vars == <<impl, STRIPE_WEBHOOK_SECRET, requests, ledger, appendedBy, probe>>

\* ---------------------------------------------------------------- configuration

Unset == ""
LiveSecret == "whsec_live"

\* server.js:22
AGREEMENT_VERSION == "v1.0"

PriceBronze == "price_1SWcyzHeOH2hxFO3a1RWyyv1"
PriceSilver == "price_1SWd8MHeOH2hxFO3PycEn43V"
PriceGold == "price_1SWdDaHeOH2hxFO31X6W21AK"
PriceTitan == "price_1SWdGPHeOH2hxFO3ZsLDEvhK"

\* part_000:54-75
TIER_CONFIG ==
    (PriceBronze :> [tier |-> "Bronze", contribution |-> 250, credits |-> 325]) @@
    (PriceSilver :> [tier |-> "Silver", contribution |-> 750, credits |-> 1050]) @@
    (PriceGold :> [tier |-> "Gold", contribution |-> 2000, credits |-> 3000]) @@
    (PriceTitan :> [tier |-> "Titan", contribution |-> 5000, credits |-> 8000])

\* ---------------------------------------------------------------- numbers

\* A JavaScript number holding an amount of dollars with two decimals, kept
\* exactly: whole + frac/100 with 0 <= frac < 100 (so -2.50 is whole -3, frac 50).
Usd(cents) == [whole |-> cents \div 100, frac |-> cents % 100]

CentsOf(amountTotal) == amountTotal.whole * 100 + amountTotal.frac

\* Math.round: nearest integer, halves toward +infinity.
MathRound(amountTotal) ==
    IF amountTotal.frac >= 50 THEN amountTotal.whole + 1 ELSE amountTotal.whole

\* Math.floor in place of Math.round in the fallback.
RoundTimesMultiplier_floor(amountTotal) ==
    (13 * CentsOf(amountTotal)) \div 1000

\* Math.round(amountTotal * 1.3): 1.3 * cents / 100 = 13 * cents / 1000,
\* rounded to the nearest integer, halves toward +infinity.
RoundTimesMultiplier(amountTotal) ==
    (13 * CentsOf(amountTotal) + 500) \div 1000

\* amountTotal > n in place of amountTotal >= n
AtLeast_strict(amountTotal, n) ==
    amountTotal.whole > n \/ (amountTotal.whole = n /\ amountTotal.frac > 0)

\* amountTotal >= n for an integer n
AtLeast(amountTotal, n) == amountTotal.whole >= n

\* (session.amount_total || 0): null, undefined and 0 all give 0.
\* amount_total is <<>> when absent, <<cents>> when present.
AmountOrZero(session) ==
    IF session.amount_total = <<>> THEN 0 ELSE session.amount_total[1]

\* ---------------------------------------------------------------- tier & credits (server.js)

\* resolveTier without the metadata branch.
resolveTier_amountOnly(session) ==
    LET amountTotal == Usd(AmountOrZero(session))
    IN  IF AtLeast(amountTotal, 5000) THEN "Titan"
        ELSE IF AtLeast(amountTotal, 2000) THEN "Gold"
        ELSE IF AtLeast(amountTotal, 750) THEN "Silver"
        ELSE IF AtLeast(amountTotal, 250) THEN "Bronze"
        ELSE "Unknown"

resolveTier(session) ==
    IF session.metadata_tier # ""
    THEN session.metadata_tier
    ELSE LET amountTotal == Usd(AmountOrZero(session))
         IN  IF AtLeast(amountTotal, 5000) THEN "Titan"
             ELSE IF AtLeast(amountTotal, 2000) THEN "Gold"
             ELSE IF AtLeast(amountTotal, 750) THEN "Silver"
             ELSE IF AtLeast(amountTotal, 250) THEN "Bronze"
             ELSE "Unknown"

resolveCredits(tier, amountTotal) ==
    LET rounded == MathRound(amountTotal)
    IN  CASE rounded = 250 -> 325
          [] rounded = 750 -> 1050
          [] rounded = 2000 -> 3000
          [] rounded = 5000 -> 8000
          [] OTHER -> RoundTimesMultiplier(amountTotal)

\* ---------------------------------------------------------------- events

CheckoutCompleted == "checkout.session.completed"

\* The fields of a Stripe Checkout Session that the handlers read.  "" stands
\* for an absent (null/undefined) string field, <<>> for an absent amount_total.
\* line_items is what stripe.checkout.sessions.listLineItems returns for the
\* session: the price id of each purchased item, in order.
Session(id, cdEmail, cEmail, amount, tier, customer, items) ==
    [id |-> id, customer_details_email |-> cdEmail, customer_email |-> cEmail,
     amount_total |-> amount, metadata_tier |-> tier, customer |-> customer,
     line_items |-> items]

NoSession == Session("", "", "", <<>>, "", "", <<>>)

Sessions ==
    { Session("cs_bronze", "a@x.io", "", <<25000>>, "", "cus_1", <<PriceBronze>>),
      Session("cs_meta", "", "b@x.io", <<1000>>, "Gold", "", <<PriceGold, PriceBronze>>),
      Session("cs_noitems", "", "", <<75000>>, "", "cus_3", <<>>),
      Session("cs_oddprice", "d@x.io", "z@x.io", <<100000>>, "", "", <<"price_unknown">>),
      Session("cs_noamount", "", "", <<>>, "", "", <<PriceTitan>>),
      Session("cs_round", "f@x.io", "", <<24950>>, "", "cus_6", <<PriceBronze>>) }

\* The events Stripe may deliver: one checkout.session.completed per session,
\* and one event of a type the handlers do not care about.
Events ==
    { [id |-> "evt_" \o s.id, type |-> CheckoutCompleted, session |-> s] : s \in Sessions }
    \cup { [id |-> "evt_pi", type |-> "payment_intent.succeeded", session |-> NoSession] }

\* The stripe-signature header of a delivery, by the key that produced it:
\* the endpoint's signing secret, some other key (forged or tampered payload),
\* or no header at all.
Signatures == {LiveSecret, "whsec_other", "missing"}

\* ---------------------------------------------------------------- requests

NewRequest(e, sig) ==
    [event |-> e, sig |-> sig, pc |-> "received", status |-> 0, body |-> <<>>,
     error |-> "", trace |-> <<>>, row |-> <<>>, sent |-> 0, completedAt |-> 0]

\* res.status(status).send(body): a response of the request goes out (sent
\* counts them).
Respond(req, status, body) ==
    [req EXCEPT !.pc = "done", !.status = status, !.body = body, !.sent = @ + 1]

\* constructEvent that only looks for the header and never compares signatures.
constructEvent_presenceOnly(sig, secret) ==
    IF secret = Unset THEN "No webhook secret was provided"
    ELSE IF sig = "missing" THEN "No stripe-signature header value was provided"
    ELSE ""

\* stripe.webhooks.constructEvent(req.body, sig, secret): "" when the header
\* carries a signature of the payload under `secret`, else the message of the
\* error it throws.  Without a secret no signature can be computed.
constructEvent(sig, secret) ==
    IF secret = Unset THEN "No webhook secret was provided"
    ELSE IF sig = "missing" THEN "No stripe-signature header value was provided"
    ELSE IF sig # secret THEN "No signatures found matching the expected signature for payload"
    ELSE ""

\* ---------------------------------------------------------------- server.js

timestampUtc == "now.toISOString()"
timestampLocal == "now.toLocaleString(en-US, America/Chicago)"

\* server.js handleCheckoutCompleted, up to the call of appendToSheet.
founderRecord(session) ==
    LET email == IF session.customer_details_email # "" THEN session.customer_details_email
                 ELSE IF session.customer_email # "" THEN session.customer_email
                 ELSE ""
        amountTotal == Usd(AmountOrZero(session))
        tier == resolveTier(session)
        credits == resolveCredits(tier, amountTotal)
    IN  [timestampUtc |-> timestampUtc, timestampLocal |-> timestampLocal,
         email |-> email, tier |-> tier, amountTotal |-> amountTotal,
         credits |-> credits, sessionId |-> session.id,
         customerId |-> session.customer, notes |-> "",
         agreementVersion |-> AGREEMENT_VERSION]

\* server.js appendToSheet: the row of columns A..K.  (x || '') and (x || 0)
\* leave a string or a number as it is.
sheetRow(founder) ==
    << founder.timestampUtc, founder.timestampLocal, founder.email, founder.tier,
       founder.amountTotal, founder.credits, founder.sessionId, founder.customerId,
       founder.notes, "", founder.agreementVersion >>

\* ---------------------------------------------------------------- part_000

\* part_000 handleCheckoutCompleted after listLineItems returned: "" or the
\* message of the Error it throws.
lineItemsError(session) ==
    IF session.line_items = <<>> THEN "No line items found on session"
    ELSE IF session.line_items[1] \notin DOMAIN TIER_CONFIG THEN "Unknown price ID"
    ELSE ""

\* part_000 handleCheckoutCompleted + appendToSheet: the row of columns A..H.
\* amount_total / 100 is 0 for a null amount_total.
legacyRow(session) ==
    LET config == TIER_CONFIG[session.line_items[1]]
        email == IF session.customer_details_email # "" THEN session.customer_details_email
                 ELSE IF session.customer_email # "" THEN session.customer_email
                 ELSE "unknown"
    IN  << timestampUtc, email, config.tier, Usd(AmountOrZero(session)),
           config.credits, session.id, session.customer, "" >>

\* ---------------------------------------------------------------- actions

NoFounder == founderRecord(NoSession)

NoProbe == [session |-> NoSession, resolved |-> FALSE, founder |-> NoFounder]

Init ==
    /\ impl \in {"server_js", "part_000"}
    /\ STRIPE_WEBHOOK_SECRET \in {Unset, LiveSecret}
    /\ requests = <<>>
    /\ ledger = <<>>
    /\ appendedBy = <<>>
    /\ probe = NoProbe

Pending(i) == i \in DOMAIN requests

\* Stripe POSTs an event to /stripe-webhook.
Deliver(e, sig) ==
    /\ Len(requests) < MaxReq
    /\ requests' = Append(requests, NewRequest(e, sig))
    /\ UNCHANGED <<impl, STRIPE_WEBHOOK_SECRET, ledger, appendedBy, probe>>

\* handleCheckoutCompleted that first looks the session up in the ledger and
\* skips the append when a row with its id is already there.
ServerCheckout_dedup(req) ==
    IF \E k \in DOMAIN ledger : ledger[k][7] = req.event.session.id
    THEN [req EXCEPT !.pc = "appended"]
    ELSE [req EXCEPT !.pc = "appending",
                     !.row = sheetRow(founderRecord(req.event.session)),
                     !.trace = Append(@, "append")]

\* A handler that calls appendToSheet without await: the acknowledgment goes
\* out while the append is in flight.
ServerCheckout_noAwait(req) ==
    Respond([req EXCEPT !.row = sheetRow(founderRecord(req.event.session)),
                        !.trace = Append(@, "append")],
            200, <<"{received: true}">>)

\* A handler that guards the amount: a session that paid nothing is thrown
\* out before any row is built.
ServerCheckout_guard(req) ==
    IF AmountOrZero(req.event.session) <= 0
    THEN [req EXCEPT !.pc = "append_failed", !.error = "amount is not positive"]
    ELSE [req EXCEPT !.pc = "appending",
                     !.row = sheetRow(founderRecord(req.event.session)),
                     !.trace = Append(@, "append")]

\* server.js handleCheckoutCompleted up to its await: builds the record and
\* the row and issues the one append call.
ServerCheckout(req) ==
    [req EXCEPT !.pc = "appending",
                !.row = sheetRow(founderRecord(req.event.session)),
                !.trace = Append(@, "append")]

\* The handler without its switch on event.type: every verified event is
\* handled as a completed checkout.
ServerHandle_anyType(req) ==
    IF STRIPE_WEBHOOK_SECRET = Unset
    THEN Respond(req, 500, <<"Webhook secret not configured">>)
    ELSE LET err == constructEvent(req.sig, STRIPE_WEBHOOK_SECRET)
             seen == [req EXCEPT !.trace = Append(@, "constructEvent")]
         IN  IF err # ""
             THEN Respond(seen, 400, <<"Webhook Error: ", err>>)
             ELSE ServerCheckout(seen)

\* server.js app.post('/stripe-webhook'), from entry to its first await.
ServerHandle(req) ==
    IF STRIPE_WEBHOOK_SECRET = Unset
    THEN Respond(req, 500, <<"Webhook secret not configured">>)
    ELSE LET err == constructEvent(req.sig, STRIPE_WEBHOOK_SECRET)
             seen == [req EXCEPT !.trace = Append(@, "constructEvent")]
         IN  IF err # ""
             THEN Respond(seen, 400, <<"Webhook Error: ", err>>)
             ELSE IF req.event.type = CheckoutCompleted
             THEN ServerCheckout(seen)
             ELSE Respond(seen, 200, <<"{received: true}">>)

ServerWebhook(i) ==
    /\ impl = "server_js"
    /\ Pending(i)
    /\ requests[i].pc = "received"
    /\ requests' = [requests EXCEPT ![i] = ServerHandle(@)]
    /\ UNCHANGED <<impl, STRIPE_WEBHOOK_SECRET, ledger, appendedBy, probe>>

\* The continuation with one internal retry of a failed append.
ServerResume_retry(req) ==
    IF req.pc = "appended"
    THEN Respond(req, 200, <<"{received: true}">>)
    ELSE IF Len(req.trace) < 3
    THEN [req EXCEPT !.pc = "appending", !.trace = Append(@, "append")]
    ELSE Respond(req, 500, <<"Internal Server Error">>)

\* The continuation when the route's catch only logs and sends nothing.
ServerResume_silent(req) ==
    IF req.pc = "appended"
    THEN Respond(req, 200, <<"{received: true}">>)
    ELSE req

\* The continuation when handleCheckoutCompleted's catch does not rethrow.
ServerResume_swallow(req) ==
    Respond(req, 200, <<"{received: true}">>)

\* The continuation of a process that remembers a failure: once any request
\* has been answered 500, every later one is too.
ServerResume_sticky(req) ==
    IF req.pc = "appended"
        /\ ~\E j \in DOMAIN requests : requests[j].pc = "done" /\ requests[j].status = 500
    THEN Respond(req, 200, <<"{received: true}">>)
    ELSE Respond(req, 500, <<"Internal Server Error">>)

\* server.js: the handler resumes after await handleCheckoutCompleted(session).
ServerResume(req) ==
    IF req.pc = "appended"
    THEN Respond(req, 200, <<"{received: true}">>)
    ELSE Respond(req, 500, <<"Internal Server Error">>)

ServerAppendReturned(i) ==
    /\ impl = "server_js"
    /\ Pending(i)
    /\ requests[i].pc \in {"appended", "append_failed"}
    /\ requests' = [requests EXCEPT ![i] = ServerResume(@)]
    /\ UNCHANGED <<impl, STRIPE_WEBHOOK_SECRET, ledger, appendedBy, probe>>

\* part_000 app.post('/stripe-webhook'), from entry to its first await.
LegacyHandle(req) ==
    LET err == constructEvent(req.sig, STRIPE_WEBHOOK_SECRET)
        seen == [req EXCEPT !.trace = Append(@, "constructEvent")]
    IN  IF err # ""
        THEN Respond(seen, 400, <<"Webhook Error: ", err>>)
        ELSE IF req.event.type = CheckoutCompleted
        THEN [seen EXCEPT !.pc = "fetching", !.trace = Append(@, "listLineItems")]
        ELSE Respond(seen, 200, <<"Event ignored">>)

LegacyWebhook(i) ==
    /\ impl = "part_000"
    /\ Pending(i)
    /\ requests[i].pc = "received"
    /\ requests' = [requests EXCEPT ![i] = LegacyHandle(@)]
    /\ UNCHANGED <<impl, STRIPE_WEBHOOK_SECRET, ledger, appendedBy, probe>>

\* A handler that sends the caught error's message as the 500 body.
LegacyCheckout_leak(req) ==
    LET err == lineItemsError(req.event.session)
    IN  IF err # ""
        THEN Respond([req EXCEPT !.error = err], 500, <<err>>)
        ELSE [req EXCEPT !.pc = "appending",
                         !.row = legacyRow(req.event.session),
                         !.trace = Append(@, "append")]

\* part_000 handleCheckoutCompleted resumes with the line items.
LegacyCheckout(req) ==
    LET err == lineItemsError(req.event.session)
    IN  IF err # ""
        THEN Respond([req EXCEPT !.error = err], 500, <<"Server error">>)
        ELSE [req EXCEPT !.pc = "appending",
                         !.row = legacyRow(req.event.session),
                         !.trace = Append(@, "append")]

LegacyLineItemsReturned(i) ==
    /\ impl = "part_000"
    /\ Pending(i)
    /\ requests[i].pc = "fetching"
    /\ requests' = [requests EXCEPT ![i] = LegacyCheckout(@)]
    /\ UNCHANGED <<impl, STRIPE_WEBHOOK_SECRET, ledger, appendedBy, probe>>

\* part_000: stripe.checkout.sessions.listLineItems rejects.
LegacyLineItemsFailed(i) ==
    /\ impl = "part_000"
    /\ Pending(i)
    /\ requests[i].pc = "fetching"
    /\ requests' = [requests EXCEPT ![i] =
            Respond([@ EXCEPT !.error = "listLineItems failed"], 500, <<"Server error">>)]
    /\ UNCHANGED <<impl, STRIPE_WEBHOOK_SECRET, ledger, appendedBy, probe>>

\* A handler that reports its own failure as the sender's fault.
LegacyResume_clientError(req) ==
    IF req.pc = "appended"
    THEN Respond(req, 200, <<"Received and processed">>)
    ELSE Respond(req, 400, <<"Server error">>)

\* part_000: the handler resumes after await handleCheckoutCompleted(session).
LegacyResume(req) ==
    IF req.pc = "appended"
    THEN Respond(req, 200, <<"Received and processed">>)
    ELSE Respond(req, 500, <<"Server error">>)

LegacyAppendReturned(i) ==
    /\ impl = "part_000"
    /\ Pending(i)
    /\ requests[i].pc \in {"appended", "append_failed"}
    /\ requests' = [requests EXCEPT ![i] = LegacyResume(@)]
    /\ UNCHANGED <<impl, STRIPE_WEBHOOK_SECRET, ledger, appendedBy, probe>>

\* The number of append calls that have completed successfully so far.
Completions == Cardinality({j \in DOMAIN requests : requests[j].completedAt > 0})

\* sheetsClient.spreadsheets.values.append succeeds: the sheet gains the row
\* (one atomic append per call) and the call's promise resolves.  completedAt
\* records the rank of the call among the completed ones.
\* A ledger that files rows by the arrival number of their request.
SheetsAppendOk_arrivalOrder(i) ==
    LET n == Len(SelectSeq(appendedBy, LAMBDA j : j < i))
        Insert(seq, x) ==
            (IF n = 0 THEN <<>> ELSE SubSeq(seq, 1, n)) \o <<x>> \o
            (IF n = Len(seq) THEN <<>> ELSE SubSeq(seq, n + 1, Len(seq)))
    IN  /\ Pending(i) /\ requests[i].pc = "appending"
        /\ ledger' = Insert(ledger, requests[i].row)
        /\ appendedBy' = Insert(appendedBy, i)
        /\ requests' = [requests EXCEPT ![i].pc = "appended", ![i].completedAt = Completions + 1]
        /\ UNCHANGED <<impl, STRIPE_WEBHOOK_SECRET, probe>>

SheetsAppendOk(i) ==
    /\ Pending(i)
    /\ requests[i].pc = "appending"
    /\ ledger' = Append(ledger, requests[i].row)
    /\ appendedBy' = Append(appendedBy, i)
    /\ requests' = [requests EXCEPT ![i].pc = "appended",
                                    ![i].completedAt = Completions + 1]
    /\ UNCHANGED <<impl, STRIPE_WEBHOOK_SECRET, probe>>

\* sheetsClient.spreadsheets.values.append errors (network, auth, quota):
\* nothing is written and the call's promise rejects.
SheetsAppendFailed(i) ==
    /\ Pending(i)
    /\ requests[i].pc = "appending"
    /\ requests' = [requests EXCEPT ![i].pc = "append_failed",
                                    ![i].error = "append failed"]
    /\ UNCHANGED <<impl, STRIPE_WEBHOOK_SECRET, ledger, appendedBy, probe>>

Next ==
    \/ \E e \in Events, sig \in Signatures : Deliver(e, sig)
    \/ \E i \in 1..MaxReq : ServerWebhook(i)
    \/ \E i \in 1..MaxReq : ServerAppendReturned(i)
    \/ \E i \in 1..MaxReq : LegacyWebhook(i)
    \/ \E i \in 1..MaxReq : LegacyLineItemsReturned(i)
    \/ \E i \in 1..MaxReq : LegacyLineItemsFailed(i)
    \/ \E i \in 1..MaxReq : LegacyAppendReturned(i)
    \/ \E i \in 1..MaxReq : SheetsAppendOk(i)
    \/ \E i \in 1..MaxReq : SheetsAppendFailed(i)

Spec == Init /\ [][Next]_vars

\* ---------------------------------------------------------------- the dispatcher under fair scheduling

EventOf(id) == CHOOSE e \in Events : e.id = id

\* One delivery for every path through the two handlers: no header, a forged
\* signature, an ignored type, and checkout sessions that are well formed,
\* without line items, and with a price outside the tier table.
LiveInputs ==
    { <<EventOf("evt_pi"), "missing">>,
      <<EventOf("evt_cs_bronze"), "whsec_other">>,
      <<EventOf("evt_pi"), LiveSecret>>,
      <<EventOf("evt_cs_bronze"), LiveSecret>>,
      <<EventOf("evt_cs_noitems"), LiveSecret>>,
      <<EventOf("evt_cs_oddprice"), LiveSecret>> }

DeliverLive(e, sig) ==
    /\ <<e, sig>> \in LiveInputs
    /\ Deliver(e, sig)

NextLive ==
    \/ \E e \in Events, sig \in Signatures : DeliverLive(e, sig)
    \/ \E i \in 1..MaxReq : ServerWebhook(i)
    \/ \E i \in 1..MaxReq : ServerAppendReturned(i)
    \/ \E i \in 1..MaxReq : LegacyWebhook(i)
    \/ \E i \in 1..MaxReq : LegacyLineItemsReturned(i)
    \/ \E i \in 1..MaxReq : LegacyLineItemsFailed(i)
    \/ \E i \in 1..MaxReq : LegacyAppendReturned(i)
    \/ \E i \in 1..MaxReq : SheetsAppendOk(i)
    \/ \E i \in 1..MaxReq : SheetsAppendFailed(i)

\* The event loop runs every handler and continuation that is ready, and every
\* outbound call in flight eventually returns or errors.
Fairness ==
    \A i \in 1..MaxReq :
        /\ WF_vars(ServerWebhook(i))
        /\ WF_vars(ServerAppendReturned(i))
        /\ WF_vars(LegacyWebhook(i))
        /\ WF_vars(LegacyAppendReturned(i))
        /\ WF_vars(LegacyLineItemsReturned(i) \/ LegacyLineItemsFailed(i))
        /\ WF_vars(SheetsAppendOk(i) \/ SheetsAppendFailed(i))

SpecLive == Init /\ [][NextLive]_vars /\ Fairness

\* ---------------------------------------------------------------- the tier resolver alone

\* Amounts in cents around every threshold and table value, around zero
\* (negative amounts included) and around two amounts off the table.
TierBases == {0 - 25000, 0, 1000, 25000, 75000, 100000, 200000, 500000}

ProbeAmounts ==
    {<<>>} \cup { <<b + d>> : b \in TierBases, d \in (0 - Spread)..Spread }

ProbeTiers == {"", "Gold", "Bronze"}

InitTier ==
    /\ impl = "server_js"
    /\ STRIPE_WEBHOOK_SECRET = LiveSecret
    /\ requests = <<>>
    /\ ledger = <<>>
    /\ appendedBy = <<>>
    /\ probe \in { [session |-> Session("cs_probe", "", "", a, t, "", <<>>),
                    resolved |-> FALSE, founder |-> NoFounder] :
                   a \in ProbeAmounts, t \in ProbeTiers }

\* server.js handleCheckoutCompleted computes amountTotal, tier and credits
\* of the session.
ResolveProbe ==
    /\ ~probe.resolved
    /\ probe' = [probe EXCEPT !.resolved = TRUE,
                              !.founder = founderRecord(probe.session)]
    /\ UNCHANGED <<impl, STRIPE_WEBHOOK_SECRET, requests, ledger, appendedBy>>

NextTier == ResolveProbe

SpecTier == InitTier /\ [][NextTier]_vars

\* ---------------------------------------------------------------- the processor's redelivery

\* Stripe's delivery attempts for one event: it delivers again after each
\* 5xx answer and stops at the first 2xx.
MaxDeliveries == MaxFail + 1

Failures ==
    Cardinality({j \in DOMAIN requests :
        requests[j].error \in {"append failed", "listLineItems failed"}})

DeliverFirst(e, sig) ==
    /\ requests = <<>>
    /\ Deliver(e, sig)

Redeliver ==
    /\ requests # <<>>
    /\ Len(requests) < MaxDeliveries
    /\ requests[Len(requests)].pc = "done"
    /\ requests[Len(requests)].status >= 500
    /\ requests' = Append(requests,
            NewRequest(requests[Len(requests)].event, requests[Len(requests)].sig))
    /\ UNCHANGED <<impl, STRIPE_WEBHOOK_SECRET, ledger, appendedBy, probe>>

\* The outbound calls eventually succeed: at most MaxFail of them fail.
SheetsAppendFailedYet(i) ==
    /\ Failures < MaxFail
    /\ SheetsAppendFailed(i)

LegacyLineItemsFailedYet(i) ==
    /\ Failures < MaxFail
    /\ LegacyLineItemsFailed(i)

NextRetry ==
    \/ \E e \in Events, sig \in Signatures : DeliverFirst(e, sig)
    \/ Redeliver
    \/ \E i \in 1..MaxDeliveries : ServerWebhook(i)
    \/ \E i \in 1..MaxDeliveries : ServerAppendReturned(i)
    \/ \E i \in 1..MaxDeliveries : LegacyWebhook(i)
    \/ \E i \in 1..MaxDeliveries : LegacyLineItemsReturned(i)
    \/ \E i \in 1..MaxDeliveries : LegacyLineItemsFailedYet(i)
    \/ \E i \in 1..MaxDeliveries : LegacyAppendReturned(i)
    \/ \E i \in 1..MaxDeliveries : SheetsAppendOk(i)
    \/ \E i \in 1..MaxDeliveries : SheetsAppendFailedYet(i)

FairnessRetry ==
    /\ WF_vars(Redeliver)
    /\ \A i \in 1..MaxDeliveries :
        /\ WF_vars(ServerWebhook(i)) /\ WF_vars(ServerAppendReturned(i))
        /\ WF_vars(LegacyWebhook(i)) /\ WF_vars(LegacyAppendReturned(i))
        /\ WF_vars(LegacyLineItemsReturned(i) \/ LegacyLineItemsFailedYet(i))
        /\ WF_vars(SheetsAppendOk(i) \/ SheetsAppendFailedYet(i))

SpecRetry == Init /\ [][NextRetry]_vars /\ FairnessRetry

\* ---------------------------------------------------------------- a probed session through server.js

\* Stripe delivers the probed session, validly signed, as a completed
\* checkout.
DeliverProbe ==
    /\ requests = <<>>
    /\ requests' = <<NewRequest([id |-> "evt_probe", type |-> CheckoutCompleted,
                                 session |-> probe.session], LiveSecret)>>
    /\ UNCHANGED <<impl, STRIPE_WEBHOOK_SECRET, ledger, appendedBy, probe>>

NextTierLedger ==
    \/ DeliverProbe
    \/ \E i \in 1..MaxReq : ServerWebhook(i)
    \/ \E i \in 1..MaxReq : ServerAppendReturned(i)
    \/ \E i \in 1..MaxReq : SheetsAppendOk(i)
    \/ \E i \in 1..MaxReq : SheetsAppendFailed(i)

SpecTierLedger == InitTier /\ [][NextTierLedger]_vars

\* ---------------------------------------------------------------- vocabulary of the claims

Req(i) == requests[i]

Done(r) == r.pc = "done"

\* The outbound call (or the verification) `step` was issued for the request.
Called(r, step) == \E k \in DOMAIN r.trace : r.trace[k] = step

Calls(r, step) == Cardinality({k \in DOMAIN r.trace : r.trace[k] = step})

\* The positions of the ledger rows that request i's append call added.
RowsOf(i) == {k \in DOMAIN appendedBy : appendedBy[k] = i}

\* The header is absent, or carries a signature that Stripe's signing secret
\* for this endpoint did not produce.
BadSignature(r) == r.sig \in {"whsec_other", "missing"}

\* The header carries a signature of the payload under the secret the
\* endpoint verifies with.
ValidlySigned(r) == r.sig = STRIPE_WEBHOOK_SECRET

IsCheckout(r) == r.event.type = CheckoutCompleted

\* ---------------------------------------------------------------- C1

\* C1 as stated: every request with an invalid or missing signature is
\* answered 400 and no ledger append is attempted for it, whatever its
\* declared event type.
C1_AsStated ==
    \A i \in DOMAIN requests :
        BadSignature(Req(i)) =>
            /\ ~Called(Req(i), "append")
            /\ RowsOf(i) = {}
            /\ Done(Req(i)) => Req(i).status = 400

\* C1 amended: every request with an invalid or missing signature leaves the
\* ledger alone (no append call, no row), whatever its declared event type, and
\* is answered 400 -- except by server.js without a signing secret, which
\* answers 500 before it verifies anything.
C1_BadSignatureRejected ==
    \A i \in DOMAIN requests :
        BadSignature(Req(i)) =>
            /\ ~Called(Req(i), "append")
            /\ ~Called(Req(i), "listLineItems")
            /\ RowsOf(i) = {}
            /\ Req(i).pc \in {"received", "done"}
            /\ Done(Req(i)) =>
                Req(i).status = IF impl = "server_js" /\ STRIPE_WEBHOOK_SECRET = Unset
                                THEN 500 ELSE 400

\* A forged checkout-completed event was answered 400 while another request
\* of the same run did write its row.
C1_Witness ==
    \E i, j \in DOMAIN requests :
        /\ Req(i).sig = "whsec_other" /\ IsCheckout(Req(i))
        /\ Done(Req(i)) /\ Req(i).status = 400
        /\ RowsOf(j) # {}

\* ---------------------------------------------------------------- C2

\* C2: a validly signed event of any type other than checkout-completed is
\* answered 200 at once, with no line-item fetch and no ledger write.
C2_OtherTypesIgnored ==
    \A i \in DOMAIN requests :
        (ValidlySigned(Req(i)) /\ ~IsCheckout(Req(i))) =>
            /\ ~Called(Req(i), "append")
            /\ ~Called(Req(i), "listLineItems")
            /\ RowsOf(i) = {}
            /\ Req(i).pc \in {"received", "done"}
            /\ Done(Req(i)) => Req(i).status = 200

\* A validly signed payment_intent event was answered 200 and the ledger is
\* still empty.
C2_Witness ==
    \E i \in DOMAIN requests :
        /\ ValidlySigned(Req(i)) /\ ~IsCheckout(Req(i))
        /\ Done(Req(i)) /\ Req(i).status = 200
        /\ ledger = <<>>

\* ---------------------------------------------------------------- C3

\* C3: a validly signed checkout-completed event whose session has no line
\* items is answered 500 and the Ledger Writer is never called for it.
C3_AsStated ==
    \A i \in DOMAIN requests :
        (ValidlySigned(Req(i)) /\ IsCheckout(Req(i))
            /\ Req(i).event.session.line_items = <<>>) =>
            /\ ~Called(Req(i), "append")
            /\ RowsOf(i) = {}
            /\ Done(Req(i)) => Req(i).status = 500

\* ---------------------------------------------------------------- C4

Processed(r) ==
    IsCheckout(r) /\ (r.pc = "appended" \/ (Done(r) /\ r.status = 200))

\* C5: ledger rows and processed requests correspond one to one: a request
\* has exactly one row if it reached Processed and none otherwise, every row
\* is the row built by a request that reached Processed, and the number of
\* rows is the number of processed requests.
C5_OneRowPerProcessed ==
    /\ Len(appendedBy) = Len(ledger)
    /\ \A i \in DOMAIN requests :
        Cardinality(RowsOf(i)) = IF Processed(Req(i)) THEN 1 ELSE 0
    /\ \A k \in DOMAIN ledger :
        /\ appendedBy[k] \in DOMAIN requests
        /\ Processed(Req(appendedBy[k]))
        /\ ledger[k] = Req(appendedBy[k]).row
    /\ Len(ledger) = Cardinality({i \in DOMAIN requests : Processed(Req(i))})

\* One request was acknowledged with 200 and has its row; another failed with
\* 500 and has none.
C5_Witness ==
    \E i, j \in DOMAIN requests :
        /\ IsCheckout(Req(i)) /\ Done(Req(i)) /\ Req(i).status = 200
        /\ IsCheckout(Req(j)) /\ Done(Req(j)) /\ Req(j).status = 500
        /\ Len(ledger) = 1

\* ---------------------------------------------------------------- C6

\* The column of the row that holds the session id (G in server.js, F in
\* part_000).
SessionIdColumn == IF impl = "server_js" THEN 7 ELSE 6

ProbeCents ==
    IF probe.session.amount_total = <<>> THEN 0 ELSE probe.session.amount_total[1]

NoMetadata == probe.session.metadata_tier = ""

\* C7: without tier metadata, 250.00 resolves to Bronze/325, 750.00 to
\* Silver/1050, 2000.00 to Gold/3000 and 5000.00 to Titan/8000 -- the tier and
\* credits that part_000's TIER_CONFIG gives the price of that contribution.
C7_TableAmounts ==
    (probe.resolved /\ NoMetadata) =>
        /\ ProbeCents = 25000 =>
            (probe.founder.tier = "Bronze" /\ probe.founder.credits = 325)
        /\ ProbeCents = 75000 =>
            (probe.founder.tier = "Silver" /\ probe.founder.credits = 1050)
        /\ ProbeCents = 200000 =>
            (probe.founder.tier = "Gold" /\ probe.founder.credits = 3000)
        /\ ProbeCents = 500000 =>
            (probe.founder.tier = "Titan" /\ probe.founder.credits = 8000)
        /\ \A p \in DOMAIN TIER_CONFIG :
            ProbeCents = 100 * TIER_CONFIG[p].contribution =>
                /\ probe.founder.tier = TIER_CONFIG[p].tier
                /\ probe.founder.credits = TIER_CONFIG[p].credits

\* A session of exactly 250.00 without metadata has been resolved.
C7_Witness ==
    /\ probe.resolved /\ NoMetadata
    /\ probe.session.amount_total = <<25000>>
    /\ probe.founder.tier = "Bronze" /\ probe.founder.credits = 325

\* ---------------------------------------------------------------- C8

\* The amount of c cents rounds (halves up) to v dollars.
RoundsTo(c, v) == 100 * v - 50 <= c /\ c < 100 * v + 50

\* k is 1.3 * c / 100 rounded to the nearest integer, halves up.
NearestOfMultiplier(c, k) == 13 * c - 500 < 1000 * k /\ 1000 * k <= 13 * c + 500

\* C8: without tier metadata the tier is the first match of the descending
\* thresholds 5000 Titan, 2000 Gold, 750 Silver, 250 Bronze, else "Unknown";
\* when the amount does not round to 250, 750, 2000 or 5000, credits are
\* round(amount * 1.3); 1000.00 gives Silver and 1300.
C8_ThresholdsAndFallback ==
    (probe.resolved /\ NoMetadata) =>
        /\ probe.founder.tier =
            IF ProbeCents >= 500000 THEN "Titan"
            ELSE IF ProbeCents >= 200000 THEN "Gold"
            ELSE IF ProbeCents >= 75000 THEN "Silver"
            ELSE IF ProbeCents >= 25000 THEN "Bronze"
            ELSE "Unknown"
        /\ (\A v \in {250, 750, 2000, 5000} : ~RoundsTo(ProbeCents, v)) =>
            NearestOfMultiplier(ProbeCents, probe.founder.credits)
        /\ ProbeCents = 100000 =>
            (probe.founder.tier = "Silver" /\ probe.founder.credits = 1300)

\* A session of 1000.00 without metadata has been resolved by the fallback.
C8_Witness ==
    /\ probe.resolved /\ NoMetadata
    /\ probe.session.amount_total = <<100000>>
    /\ probe.founder.tier = "Silver" /\ probe.founder.credits = 1300

\* ---------------------------------------------------------------- C9

\* k is the credit count of c cents by the table, or by the fallback.
CreditsOfAmount(c, k) ==
    IF RoundsTo(c, 250) THEN k = 325
    ELSE IF RoundsTo(c, 750) THEN k = 1050
    ELSE IF RoundsTo(c, 2000) THEN k = 3000
    ELSE IF RoundsTo(c, 5000) THEN k = 8000
    ELSE NearestOfMultiplier(c, k)

\* C9: with tier metadata, the tier is the metadata value whatever the
\* amount, and the credits are those of the amount alone; metadata "Gold"
\* with 10.00 gives Gold and the 13 credits of 10.00.
C9_MetadataTierWins ==
    (probe.resolved /\ ~NoMetadata) =>
        /\ probe.founder.tier = probe.session.metadata_tier
        /\ CreditsOfAmount(ProbeCents, probe.founder.credits)
        /\ (probe.session.metadata_tier = "Gold" /\ ProbeCents = 1000) =>
            probe.founder.credits = 13

\* A session of 5000.00 marked Bronze by metadata has been resolved: Bronze,
\* with the 8000 credits of its amount.
C9_Witness ==
    /\ probe.resolved
    /\ probe.session.metadata_tier = "Bronze"
    /\ probe.session.amount_total = <<500000>>
    /\ probe.founder.tier = "Bronze" /\ probe.founder.credits = 8000

\* ---------------------------------------------------------------- C10

\* C10: without a provisioned signing secret no request is signature-verified,
\* dispatched or written to the ledger, and every response is 500.
C10_AsStated ==
    STRIPE_WEBHOOK_SECRET = Unset =>
        \A i \in DOMAIN requests :
            /\ ~Called(Req(i), "constructEvent")
            /\ ~Called(Req(i), "listLineItems")
            /\ ~Called(Req(i), "append")
            /\ RowsOf(i) = {}
            /\ Done(Req(i)) => Req(i).status = 500

\* ---------------------------------------------------------------- C11

\* The session whose event the request of ledger row k carried.
SessionOfRow(k) == Req(appendedBy[k]).event.session

\* C11: every ledger row has the 11 columns Timestamp-UTC, Timestamp-Local,
\* Email, Tier, AmountPaidUSD, Credits, SessionID, CustomerID, Notes, Status,
\* AgreementVersion in this order, with Notes and Status empty and
\* AgreementVersion the static constant.
C11_AsStated ==
    \A k \in DOMAIN ledger :
        /\ Len(ledger[k]) = 11
        /\ ledger[k][1] = timestampUtc
        /\ ledger[k][2] = timestampLocal
        /\ ledger[k][3] \in {SessionOfRow(k).customer_details_email,
                             SessionOfRow(k).customer_email}
        /\ ledger[k][5] = Usd(AmountOrZero(SessionOfRow(k)))
        /\ ledger[k][7] = SessionOfRow(k).id
        /\ ledger[k][8] = SessionOfRow(k).customer
        /\ ledger[k][9] = ""
        /\ ledger[k][10] = ""
        /\ ledger[k][11] = AGREEMENT_VERSION

\* ---------------------------------------------------------------- C12

\* C12: a validly signed checkout-completed event whose first line item has a
\* price id outside the tier table is answered 500 and appends no row.
C12_AsStated ==
    \A i \in DOMAIN requests :
        (ValidlySigned(Req(i)) /\ IsCheckout(Req(i))
            /\ Req(i).event.session.line_items # <<>>
            /\ Req(i).event.session.line_items[1] \notin DOMAIN TIER_CONFIG) =>
            /\ ~Called(Req(i), "append")
            /\ RowsOf(i) = {}
            /\ Done(Req(i)) => Req(i).status = 500

\* ---------------------------------------------------------------- C13

\* C13: no request sends more than one response, a response carries 200, 400
\* or 500 and ends the request for good, and, outbound calls returning, every
\* request that arrived is eventually responded to.
C13_OneResponseEach ==
    /\ [](\A i \in DOMAIN requests :
            /\ Req(i).sent <= 1
            /\ Done(Req(i)) <=> Req(i).sent = 1
            /\ Done(Req(i)) => Req(i).status \in {200, 400, 500})
    /\ [][\A i \in DOMAIN requests : Done(Req(i)) => requests'[i] = requests[i]]_vars
    /\ \A i \in 1..MaxReq :
        (i \in DOMAIN requests) ~> (i \in DOMAIN requests /\ Done(Req(i)))

\* Two requests in flight at once have both been responded to, one with 200
\* and one with 500.
C13_Witness ==
    \E i, j \in DOMAIN requests :
        /\ Req(i).sent = 1 /\ Req(i).status = 200 /\ IsCheckout(Req(i))
        /\ Req(j).sent = 1 /\ Req(j).status = 500
        /\ Req(i).completedAt > 0

\* ---------------------------------------------------------------- C14

ErrorBody ==
    IF impl = "part_000" THEN <<"Server error">>
    ELSE IF STRIPE_WEBHOOK_SECRET = Unset THEN <<"Webhook secret not configured">>
    ELSE <<"Internal Server Error">>

\* C15: every request answered 500 carries the deployment's one fixed text,
\* the same for any two such requests whatever error each ran into, and no
\* response of any status carries the signing secret or the message of an
\* error caught while processing the event.
C15_FixedErrorBodies ==
    /\ \A i \in DOMAIN requests :
        (Done(Req(i)) /\ Req(i).status = 500) => Req(i).body = ErrorBody
    /\ \A i, j \in DOMAIN requests :
        (Done(Req(i)) /\ Done(Req(j)) /\ Req(i).status = 500 /\ Req(j).status = 500) =>
            Req(i).body = Req(j).body
    /\ \A i \in DOMAIN requests : \A k \in DOMAIN Req(i).body :
        /\ Req(i).body[k] # LiveSecret
        /\ Req(i).error # "" => Req(i).body[k] # Req(i).error

\* Two requests were answered 500 after different errors, one of them a
\* failed ledger append or line-item fetch.
C15_Witness ==
    \E i, j \in DOMAIN requests :
        /\ Done(Req(i)) /\ Req(i).status = 500
        /\ Done(Req(j)) /\ Req(j).status = 500
        /\ Req(i).error # "" /\ Req(j).error # ""
        /\ Req(i).error # Req(j).error

\* ---------------------------------------------------------------- C16

\* The session paid nothing, or less: amount_total is absent, zero or negative.
NothingPaid(s) == AmountOrZero(s) <= 0

\* C16: a validly signed completed checkout without tier metadata whose
\* amount is absent, zero or negative is not rejected: its row is built with
\* tier "Unknown", the amount as it came and credits round(amount * 1.3)
\* (0 for nothing, never positive), the append call is issued, the row is in
\* the ledger once the call completed, and the answer is 200 unless the append
\* itself failed.
C16_NothingPaidStillProcessed ==
    \A i \in DOMAIN requests :
        LET r == Req(i)
            s == r.event.session
            c == AmountOrZero(s)
        IN  (IsCheckout(r) /\ ValidlySigned(r) /\ s.metadata_tier = "" /\ NothingPaid(s)
                /\ r.pc # "received") =>
                /\ Calls(r, "append") = 1
                /\ Len(r.row) = 11
                /\ r.row[4] = "Unknown"
                /\ r.row[5] = Usd(c)
                /\ NearestOfMultiplier(c, r.row[6])
                /\ r.row[6] <= 0
                /\ c = 0 => r.row[6] = 0
                /\ r.row[7] = s.id
                /\ r.error \in {"", "append failed"}
                /\ (r.pc = "appended" \/ (Done(r) /\ r.error = "")) =>
                    (RowsOf(i) # {} /\ \A k \in RowsOf(i) : ledger[k] = r.row)
                /\ Done(r) => r.status = IF r.error = "" THEN 200 ELSE 500

\* A session of -0.40 without metadata was acknowledged with 200 and its row,
\* tier "Unknown" and credits -1, is in the ledger.
C16_Witness ==
    \E i \in DOMAIN requests :
        /\ Req(i).event.session.amount_total = <<0 - 40>>
        /\ Req(i).event.session.metadata_tier = ""
        /\ Done(Req(i)) /\ Req(i).status = 200
        /\ Len(ledger) = 1 /\ ledger[1][4] = "Unknown" /\ ledger[1][6] = 0 - 1

\* ---------------------------------------------------------------- C17

\* The status a request is answered with, from its own delivery and the
\* outcome of its own outbound calls.
OwnStatus(r) ==
    IF impl = "server_js" /\ STRIPE_WEBHOOK_SECRET = Unset THEN 500
    ELSE IF ~ValidlySigned(r) THEN 400
    ELSE IF ~IsCheckout(r) THEN 200
    ELSE IF r.error = "" THEN 200
    ELSE 500

\* The row a request hands to the ledger, from its own session.
OwnRow(r) ==
    IF impl = "server_js" THEN sheetRow(founderRecord(r.event.session))
    ELSE legacyRow(r.event.session)

\* C17: the answer to a request and the row it writes are functions of its
\* own delivery and of the outcome of its own outbound calls; two requests of
\* one run that agree on those agree on answer and row, whatever else ran
\* before or between; a step of one request leaves every other request as it
\* was; and the configuration is never written after startup.
C17_NoSharedState ==
    /\ [](\A i \in DOMAIN requests :
            /\ Done(Req(i)) => Req(i).status = OwnStatus(Req(i))
            /\ Req(i).row # <<>> => Req(i).row = OwnRow(Req(i))
            /\ \A k \in RowsOf(i) : ledger[k] = OwnRow(Req(i)))
    /\ [](\A i, j \in DOMAIN requests :
            (/\ Req(i).event = Req(j).event /\ Req(i).sig = Req(j).sig
             /\ Req(i).pc = Req(j).pc /\ Req(i).error = Req(j).error) =>
                /\ Req(i).status = Req(j).status /\ Req(i).body = Req(j).body
                /\ Req(i).row = Req(j).row /\ Req(i).trace = Req(j).trace)
    /\ [][/\ impl' = impl /\ STRIPE_WEBHOOK_SECRET' = STRIPE_WEBHOOK_SECRET
          /\ \A i, j \in DOMAIN requests :
                (i # j /\ requests'[i] # requests[i]) => requests'[j] = requests[j]
          /\ \A k \in DOMAIN ledger : ledger'[k] = ledger[k]]_vars

\* The same event was delivered twice; the first request failed at its append
\* and was answered 500, the second was answered 200 and wrote its row.
C17_Witness ==
    /\ Len(requests) = 2
    /\ Req(1).event = Req(2).event /\ IsCheckout(Req(1))
    /\ Done(Req(1)) /\ Req(1).status = 500 /\ Req(1).error = "append failed"
    /\ Done(Req(2)) /\ Req(2).status = 200
    /\ appendedBy = <<2>>

\* ---------------------------------------------------------------- C18

\* A validly signed completed checkout with at least one line item and a
\* recognized price.
Recordable(r) ==
    /\ IsCheckout(r) /\ ValidlySigned(r)
    /\ r.event.session.line_items # <<>>
    /\ r.event.session.line_items[1] \in DOMAIN TIER_CONFIG

Recorded(i) == Done(Req(i)) /\ Req(i).status = 200 /\ RowsOf(i) # {}

\* C18: when the processor delivers an event again after every 5xx answer and
\* only finitely many outbound calls fail, a recordable event is eventually
\* answered 200 by a delivery that wrote a row; every delivery is of the same
\* event, and the delivery answered 200 is the last one.
C18_RetryRecords ==
    /\ (requests # <<>> /\ Recordable(Req(1))) ~> (\E i \in DOMAIN requests : Recorded(i))
    /\ [](\A i \in DOMAIN requests :
            /\ Req(i).event = Req(1).event /\ Req(i).sig = Req(1).sig
            /\ i < Len(requests) => (Done(Req(i)) /\ Req(i).status = 500)
            /\ (Recordable(Req(i)) /\ Done(Req(i)) /\ Req(i).status = 200) =>
                (Recorded(i) /\ i = Len(requests)))

\* Two deliveries were answered 500 after failed outbound calls; the third
\* was answered 200 and its row is the only one in the ledger.
C18_Witness ==
    /\ Len(requests) = 3
    /\ Req(1).status = 500 /\ Req(2).status = 500
    /\ Req(1).error # "" /\ Req(2).error # ""
    /\ Recordable(Req(3)) /\ Recorded(3)
    /\ appendedBy = <<3>>

\* ---------------------------------------------------------------- C19

\* C19: a completed-checkout request that has been answered 200 issued its
\* append call, the call has completed, and the row it built is in the ledger;
\* a request whose append is still in flight, or failed, has not been
\* answered 200.
C19_AckAfterAppend ==
    \A i \in DOMAIN requests :
        /\ (IsCheckout(Req(i)) /\ Done(Req(i)) /\ Req(i).status = 200) =>
            /\ Calls(Req(i), "append") = 1
            /\ Req(i).completedAt > 0
            /\ Req(i).error = ""
            /\ \E k \in DOMAIN ledger : appendedBy[k] = i /\ ledger[k] = Req(i).row
        /\ (IsCheckout(Req(i)) /\ Req(i).pc \in {"appending", "append_failed", "fetching"}) =>
            (Req(i).sent = 0 /\ Req(i).status = 0)

\* One checkout request has been answered 200 with its row in the ledger
\* while the append of another is still in flight and unanswered.
C19_Witness ==
    \E i, j \in DOMAIN requests :
        /\ IsCheckout(Req(i)) /\ Done(Req(i)) /\ Req(i).status = 200
        /\ RowsOf(i) # {}
        /\ Req(j).pc = "appending" /\ Req(j).sent = 0

\* ---------------------------------------------------------------- C20

\* The tier of each entry of the credit table (the comments beside the cases
\* of resolveCredits, and TIER_CONFIG).
TierOfCredits(k) ==
    IF k = 325 THEN "Bronze" ELSE IF k = 1050 THEN "Silver"
    ELSE IF k = 3000 THEN "Gold" ELSE "Titan"

\* C20: for a session without tier metadata, whenever the amount rounds to
\* 250, 750, 2000 or 5000, so that credits are the table's 325, 1050, 3000 or
\* 8000, the resolved tier is the tier of that table entry -- also when the
\* amount reaches the table value only by rounding, as 249.50 does.
C20_AsStated ==
    (probe.resolved /\ NoMetadata) =>
        \A v \in {250, 750, 2000, 5000} :
            RoundsTo(ProbeCents, v) =>
                /\ probe.founder.credits \in {325, 1050, 3000, 8000}
                /\ probe.founder.tier = TierOfCredits(probe.founder.credits)

====
